---- MODULE Spec2Model ----
(***************************************************************************)
(* Model of analysis.py (lateralized-components).                          *)
(*                                                                         *)
(*   SpecSummary  load_or_generate_summary called again and again on one   *)
(*                output directory (the file cache of the three summary    *)
(*                csvs), each call forced or not, returning or raising.    *)
(*   Spec         loop_main_and_plot: one run over a sequence of component *)
(*                counts, accumulating the master tables.                  *)
(*   SpecStats    the statistic engines calculate_acni and calculate_hpai  *)
(*                applied to bounded component images.                     *)
(***************************************************************************)
EXTENDS Integers, Sequences, FiniteSets, TLC

\* ------------------------------------------------------------------ bounds
MaxComp == 2        \* component counts are drawn from 1..MaxComp
MaxSeed == 2        \* distinct results the decomposition collaborator can give
MaxLen  == 2        \* length of the component-count sequence of one run
MaxVal  == 1        \* voxel intensities are drawn from -MaxVal..MaxVal
NVox    == 2        \* grey-matter voxels per hemisphere

VARIABLES
    \* --- the summary cache and the pipeline
    disk,          \* disk[c][csv]: content of <out_dir>/<c>/<csv>, or Absent
    master_csv,    \* the three master csv files written by a finished run
    pc,            \* "idle", "loop" (inside lines 599-608) or "done"
    components,    \* component-count sequence of the run
    force,         \* force flag of the run
    seed,          \* the data of the run (images fetched once, line 569)
    pos,           \* number of component counts already summarised
    masters,       \* wb_master / R_master / L_master accumulated so far
    asserted,      \* outcome of the asserts of generate_component_specific_plots
    n_components,  \* SpecSummary: the component count of the directory called
    last,          \* record of the latest load_or_generate_summary call
    generated,     \* SpecSummary: tables returned by the latest generation,
                   \*   while its three files are still the ones on disk
    \* --- the statistic engines
    filter,        \* warnings filter for RuntimeWarning: "default" or "error"
    img,           \* component image: sequence of components [L, R]
    percentile,    \* percentile argument, in tenths of a percent
    acni,          \* result of the latest calculate_acni call
    hpai,          \* result of the latest calculate_hpai call
    \* --- the global sparsity threshold
    images,        \* list of images, each a sequence of components
    scipy_empty,   \* what scoreatpercentile does with an empty array in the
                   \*   installed scipy: "nan" or "raise"
    global_thr,    \* result of the latest get_sparsity_threshold call
    \* --- the match columns of wb_summary
    sign_dtype,    \* dtype of the sign arrays of get_match_idx_pair: "int" or "float"
    match,         \* (matched, unmatched) of the latest get_match_idx_pair call
    wb_match       \* columns that the latest comparison attached to wb_summary

pipeVars == <<disk, master_csv, pc, components, force, seed, pos, masters,
              asserted, n_components, last, generated>>

statVars == <<filter, img, percentile, acni, hpai>>

thrVars == <<images, scipy_empty, global_thr>>

matchVars == <<sign_dtype, match, wb_match>>

vars == <<pipeVars, statVars, thrVars, matchVars>>

Absent == [exists |-> FALSE]     \* no such file
None   == [none |-> TRUE]        \* no value

Comps == 1..MaxComp
Seeds == 1..MaxSeed

\* ------------------------------------------------------- tables and files
summary_csvs == {"wb", "R", "L"}            \* wb_summary.csv, R_summary.csv, L_summary.csv
SPARSITY_SIGNS == <<"pos", "neg", "abs">>
hemis == {"R", "L", "wb"}
sparsityTypes == {"l1", "vc-pos", "vc-neg", "vc-abs"}
comparisons == <<"R", "L", "RL-unforced">>  \* second key of ('wb', X)

\* labels of label_dict[key]
Labels(key) == IF key = "wb" THEN hemis ELSE {key}

\* pd.DataFrame({"n_comp": [n_components] * n_components}): one row per
\* component; a row stands for the values that the data `s` give component
\* `comp` in whichever columns the table has.
NewTableShort(n, s) ==
    [cols |-> {"n_comp"},
     rows |-> [i \in 1..(n - 1) |->
                 [n_comp |-> n, comp |-> i - 1, seed |-> s]]]

NewTable(n, s) ==
    [cols |-> {"n_comp"},
     rows |-> [i \in 1..n |->
                 [n_comp |-> n, comp |-> i - 1, seed |-> s]]]

AddCols(df, names) == [df EXCEPT !.cols = @ \cup names]

\* columns attached in step 1) for one key
StatCols(key) ==
    {s \o "_" \o l : s \in sparsityTypes, l \in Labels(key)}
      \cup {"ACNI_" \o l : l \in Labels(key)}
      \cup (IF key = "wb"
              THEN {SPARSITY_SIGNS[i] \o "HPAI" : i \in 1..Len(SPARSITY_SIGNS)}
              ELSE {})

SSSCols == {"wb_SSS", "matchedRL_SSS"}

MatchCols(x) == {"matched" \o x, "match" \o x \o "_score", "n_unmatched" \o x}

\* DataFrame.to_csv(path): the index is written as a first, unnamed column
to_csv(df) == [cols |-> df.cols \cup {""}, rows |-> df.rows]

\* pd.read_csv(path): every column of the file becomes a data column; the
\* unnamed one is called "Unnamed: 0"
read_csv(f) ==
    [cols |-> {IF x = "" THEN "Unnamed: 0" ELSE x : x \in f.cols},
     rows |-> f.rows]

\* ------------------------------------------------ load_or_generate_summary
\* Places where the generation can raise, in program order; NoFail = it returns.
FailPoints == <<"match", "stats", "sss", "cmp1", "cmp2", "cmp3", "nofail">>
NoFail == "nofail"
FailIdx(p) == CHOOSE i \in 1..Len(FailPoints) : FailPoints[i] = p

CacheHitIgnoringForce(d, frc) == \A csv \in summary_csvs : d[csv] # Absent
CacheHitAny(d, frc) == ~frc /\ \E csv \in summary_csvs : d[csv] # Absent
CacheHitNever(d, frc) == FALSE

\* line 185: not force and all(op.exists(...))
CacheHit(d, frc) == ~frc /\ \A csv \in summary_csvs : d[csv] # Absent

\* wb_summary after step 2) and the first k comparisons of step 3)
WbTable(n, s, sss, k) ==
    AddCols(NewTable(n, s),
            StatCols("wb")
              \cup (IF sss THEN SSSCols ELSE {})
              \cup UNION {MatchCols(comparisons[j]) : j \in 1..k})

HemiTable(key, n, s) ==
    AddCols(NewTable(n, s), StatCols(key))

\* The else branch (lines 191-268) run up to the point `failAt`.
Generate(d, n, s, failAt) ==
    LET fi   == FailIdx(failAt)
        k    == IF fi <= 4 THEN 0 ELSE IF fi >= 7 THEN 3 ELSE fi - 4
        rl   == fi > 2              \* lines 241-242 reached
        wbw  == fi > 4              \* line 268 reached at least once
    IN  [branch  |-> "generate",
         invoked |-> TRUE,
         reads   |-> {},
         failed  |-> failAt # NoFail,
         writes  |-> (IF rl THEN {"R", "L"} ELSE {}) \cup (IF wbw THEN {"wb"} ELSE {}),
         disk    |-> [csv \in summary_csvs |->
                        IF csv = "wb"
                          THEN (IF wbw THEN to_csv(WbTable(n, s, TRUE, k))
                                       ELSE d[csv])
                          ELSE (IF rl THEN to_csv(HemiTable(csv, n, s))
                                      ELSE d[csv])],
         ret     |-> IF failAt # NoFail THEN None
                     ELSE [csv \in summary_csvs |->
                             IF csv = "wb" THEN WbTable(n, s, TRUE, 3)
                                           ELSE HemiTable(csv, n, s)]]

\* The if branch (lines 186-188); pd.read_csv raises on a missing file
Load(d) ==
    LET missing == \E csv \in summary_csvs : d[csv] = Absent
    IN  [branch  |-> "load",
         invoked |-> FALSE,
         reads   |-> summary_csvs,
         failed  |-> missing,
         writes  |-> {},
         disk    |-> d,
         ret     |-> IF missing THEN None
                     ELSE [csv \in summary_csvs |-> read_csv(d[csv])]]

load_or_generate_summary(d, n, frc, s, failAt) ==
    IF CacheHit(d, frc) THEN Load(d) ELSE Generate(d, n, s, failAt)

\* ------------------------------------------------------ loop_main_and_plot
EmptyTable == [cols |-> {}, rows |-> <<>>]

\* the rows of the new table put above those of the master
df_prepend(master, df) ==
    [cols |-> master.cols \cup df.cols, rows |-> df.rows \o master.rows]

\* DataFrame.append: rows below, union of the columns
df_append(master, df) ==
    [cols |-> master.cols \cup df.cols, rows |-> master.rows \o df.rows]

\* Python slice seq[a:b] (0-based, clipped)
Slice(sq, a, b) ==
    LET hi == IF b > Len(sq) THEN Len(sq) ELSE b
    IN  IF a >= hi THEN <<>> ELSE SubSeq(sq, a + 1, hi)

RECURSIVE SumSeq(_)
SumSeq(sq) == IF sq = <<>> THEN 0 ELSE Head(sq) + SumSeq(Tail(sq))

\* generate_component_specific_plots, lines 275-279: TRUE iff no assert fails
SlicesOK(wb_master, comps) ==
    \A i \in 1..Len(comps) :
        LET start_idx == SumSeq(SubSeq(comps, 1, i - 1))
        IN  Len(Slice(wb_master.rows, start_idx, start_idx + comps[i])) = comps[i]

DirEmpty == [csv \in summary_csvs |-> Absent]

NoCall == [c |-> 0, force |-> FALSE, pre |-> DirEmpty, preGen |-> None,
           failAt |-> NoFail, seed |-> 0, res |-> [branch |-> "none"]]

CallRecord(c, frc, s, failAt, pre, preGen, res) ==
    [c |-> c, force |-> frc, pre |-> pre, preGen |-> preGen,
     failAt |-> failAt, seed |-> s, res |-> res]

FailSet == {FailPoints[i] : i \in 1..Len(FailPoints)}

CompSeqs == UNION {[1..n -> Comps] : n \in 1..MaxLen}

\* What an earlier run can have left in the directory of count c: nothing,
\* the files of a generation that raised in the first comparison (R and L
\* only) or in the second (all three exist), or those of one that returned.
DirLeft(c) ==
    {DirEmpty} \cup {Generate(DirEmpty, c, 1, f).disk : f \in {"cmp1", "cmp2", NoFail}}

MatchIdle ==
    /\ sign_dtype = "int"
    /\ match = None
    /\ wb_match = None

ThrIdle ==
    /\ images = <<>>
    /\ scipy_empty = "nan"
    /\ global_thr = None

StatIdle ==
    /\ filter = "default"
    /\ img = <<>>
    /\ percentile = 0
    /\ acni = None
    /\ hpai = None

PipeIdle ==
    /\ master_csv = [csv \in summary_csvs |-> Absent]
    /\ pc = "idle"
    /\ components = <<>>
    /\ force = FALSE
    /\ seed = 0
    /\ pos = 0
    /\ masters = [csv \in summary_csvs |-> EmptyTable]
    /\ asserted = "none"
    /\ last = NoCall
    /\ generated = None

\* ------------------------------------------------------ statistic engines
Vals == (0 - MaxVal)..MaxVal
\* The voxels of one hemisphere. The engines only count voxels and take order
\* statistics of a row, so the place of a voxel inside its hemisphere does not
\* matter and a row is listed in ascending order.
Rows == {r \in [1..NVox -> Vals] : \A i \in 1..(NVox - 1) : r[i] <= r[i + 1]}
Component == [L : Rows, R : Rows]         \* one component of an image

Abs(v) == IF v < 0 THEN 0 - v ELSE v

\* apply_mask(img, get_hemi_gm_mask(hemi)) for one component: the voxels of
\* the hemisphere, or of both for "wb"
apply_mask(comp, hemi) ==
    IF hemi = "L" THEN comp.L ELSE IF hemi = "R" THEN comp.R ELSE comp.L \o comp.R

\* flip_img_lr: mirror the image, so that the hemispheres change places
flip_img_lr(comp) == [L |-> comp.R, R |-> comp.L]

\* i-th (0-based) smallest of the absolute values of the row
SortedAbs(row, i) ==
    CHOOSE v \in 0..MaxVal :
        /\ Cardinality({j \in 1..Len(row) : Abs(row[j]) < v}) <= i
        /\ i < Cardinality({j \in 1..Len(row) : Abs(row[j]) <= v})

Scale == 10 * 100       \* percentiles are given in tenths of a percent

\* stats.scoreatpercentile(np.abs(row), per) times Scale, per in tenths of a
\* percent: linear interpolation between the two nearest order statistics
scoreatpercentile(row, per) ==
    LET n   == Len(row)
        idx == per * (n - 1)
        i   == idx \div Scale
        fr  == idx % Scale
    IN  IF fr = 0 THEN SortedAbs(row, i) * Scale
        ELSE SortedAbs(row, i) * (Scale - fr) + SortedAbs(row, i + 1) * fr

\* np.sum(row > thr), np.sum(row < -thr), np.sum(np.abs(row) > thr)
CountPos(row, thr) == Cardinality({j \in 1..Len(row) : row[j] * Scale > thr})
CountNeg(row, thr) == Cardinality({j \in 1..Len(row) : row[j] * Scale < 0 - thr})
CountAbs(row, thr) == Cardinality({j \in 1..Len(row) : Abs(row[j]) * Scale > thr})

RECURSIVE GCD(_, _)
GCD(a, b) == IF b = 0 THEN a ELSE GCD(b, a % b)

NaN    == [kind |-> "nan",  n |-> 0, d |-> 0]
PosInf == [kind |-> "inf",  n |-> 1, d |-> 0]
NegInf == [kind |-> "inf",  n |-> 0 - 1, d |-> 0]
Num(a, b) == LET g == GCD(Abs(a), b) IN [kind |-> "num", n |-> a \div g, d |-> b \div g]

\* Python 2 integer division, what np.divide does on two integer arrays
np_divide_int(a, b) == IF b = 0 THEN Num(0, 1) ELSE Num(a \div b, 1)

\* np.divide(a, b.astype(float)) for one element: the exact quotient, or the
\* IEEE result of a division by zero
np_divide(a, b) ==
    IF b # 0 THEN Num(a, b)
    ELSE IF a = 0 THEN NaN ELSE IF a > 0 THEN PosInf ELSE NegInf

\* a division by zero makes numpy issue a RuntimeWarning, which the filter
\* set at line 645 turns into an exception
Warns(dens) == \E i \in 1..Len(dens) : dens[i] = 0
Raises(dens) == filter = "error" /\ Warns(dens)

Raised == [raised |-> TRUE, val |-> <<>>]
Returned(v) == [raised |-> FALSE, val |-> v]

\* the count of line 119 with the sign of the threshold lost
neg_voxels_unsigned(comp, hemi, per) ==
    LET row == apply_mask(comp, hemi)
    IN  Cardinality({j \in 1..Len(row) : row[j] * Scale < scoreatpercentile(row, per)})

\* lines 119-120 for one component
neg_voxels(comp, hemi, per) ==
    LET row == apply_mask(comp, hemi) IN CountNeg(row, scoreatpercentile(row, per))
abs_voxels(comp, hemi, per) ==
    LET row == apply_mask(comp, hemi) IN CountAbs(row, scoreatpercentile(row, per))

calculate_acni(image, hemi, per) ==
    LET neg == [i \in 1..Len(image) |-> neg_voxels(image[i], hemi, per)]
        abz == [i \in 1..Len(image) |-> abs_voxels(image[i], hemi, per)]
    IN  IF Raises(abz) THEN Raised
        ELSE Returned([i \in 1..Len(image) |-> np_divide(neg[i], abz[i])])

\* lines 156-163 for one component: the count on the `side` hemisphere
VoxelCount(row, sign, thr) ==
    IF sign = "pos" THEN CountPos(row, thr)
    ELSE IF sign = "neg" THEN CountNeg(row, thr)
    ELSE CountAbs(row, thr)

hpai_thr(comp, per) == scoreatpercentile(apply_mask(comp, "wb"), per)
voxel_r(comp, sign, per) ==
    VoxelCount(apply_mask(flip_img_lr(comp), "L"), sign, hpai_thr(comp, per))
voxel_l(comp, sign, per) ==
    VoxelCount(apply_mask(comp, "L"), sign, hpai_thr(comp, per))

hpai_ratio_over_right(r, l) == np_divide(r - l, r)
hpai_ratio_reversed(r, l) == np_divide(l - r, r + l)

\* line 165 for one component
hpai_ratio(r, l) == np_divide(r - l, r + l)

Signs == {SPARSITY_SIGNS[i] : i \in 1..Len(SPARSITY_SIGNS)}

calculate_hpai(image, per) ==
    LET dens(sign) == [i \in 1..Len(image) |->
                         voxel_r(image[i], sign, per) + voxel_l(image[i], sign, per)]
    IN  IF \E sign \in Signs : Raises(dens(sign)) THEN Raised
        ELSE Returned([sign \in Signs |->
                         [i \in 1..Len(image) |->
                            hpai_ratio(voxel_r(image[i], sign, per),
                                       voxel_l(image[i], sign, per))]])

\* a component with no activation at all
ZeroComp == [L |-> [i \in 1..NVox |-> 0], R |-> [i \in 1..NVox |-> 0]]

Percentiles == {500, 950}

\* ------------------------------------------- the match columns, lines 253-265
\* a two-dimensional numpy array, given by its rows
ndarray(rows) == [rows |-> rows]
shape(a) == <<Len(a.rows), Len(a.rows[1])>>

\* the members of a set of numbers in ascending order
Ascending(U) ==
    CHOOSE sq \in [1..Cardinality(U) -> U] :
        \A a, b \in 1..Cardinality(U) : a < b => sq[a] < sq[b]

\* unmatched["idx"]: None, or one column per component of the second
\* decomposition that no wb component is matched with
UnmatchedIdx(n) ==
    {None} \cup {ndarray(<<[t \in 1..Cardinality(U) |-> 0], Ascending(U)>>) :
                    U \in SUBSET (0..(n - 1))}

\* (matched, unmatched) of get_match_idx_pair for n wb components: matched
\* holds aligned index and sign arrays with one column per wb component
get_match_idx_pair(n) ==
    {[matched   |-> [idx  |-> ndarray(<<[t \in 1..n |-> t - 1], r>>),
                     sign |-> ndarray(<<[t \in 1..n |-> 1], sg>>)],
      unmatched |-> [idx |-> u]] :
        r \in [1..n -> 0..(n - 1)], sg \in [1..n -> {0 - 1, 1}], u \in UnmatchedIdx(n)}

\* index * sign as numpy stores it; of the floats only -0.0 is told from the
\* integer of the same value
np_multiply(j, sg, dt) ==
    [v |-> j * sg, negzero |-> dt = "float" /\ j = 0 /\ sg < 0]

num_unmatched_rows(unmatched) ==
    IF unmatched.idx # None THEN shape(unmatched.idx)[1] ELSE 0

\* line 264
num_unmatched(unmatched) ==
    IF unmatched.idx # None THEN shape(unmatched.idx)[2] ELSE 0

\* lines 259-265: the columns attached for the comparison ('wb', x); the
\* score stands as the place <<row, column>> of score_mat it is read from
match_columns(x, res, dt, n) ==
    [c \in MatchCols(x) |->
        IF c = "matched" \o x
          THEN [t \in 1..n |-> np_multiply(res.matched.idx.rows[2][t],
                                           res.matched.sign.rows[2][t], dt)]
        ELSE IF c = "match" \o x \o "_score"
          THEN [t \in 1..n |-> <<res.matched.idx.rows[1][t], res.matched.idx.rows[2][t]>>]
        ELSE [t \in 1..n |-> num_unmatched(res.unmatched)]]

\* ------------------------------------------------- get_sparsity_threshold
\* component_img.get_data(): all the voxels of the component
get_data(comp) == comp.L \o comp.R

IsNonzero(x) == x # 0

\* line 63: dat[np.nonzero(dat)]
nonzero_dat(comp) == SelectSeq(get_data(comp), IsNonzero)

\* line 64: the percentile of the absolute nonzero values; of an empty array
\* scoreatpercentile gives nan (or raises, see get_sparsity_threshold)
component_thr(comp, per) ==
    IF nonzero_dat(comp) = <<>> THEN NaN
    ELSE Num(scoreatpercentile(nonzero_dat(comp), per), Scale)

\* x < y on floats: false whenever one of them is nan
PyLess(x, y) == x.kind = "num" /\ y.kind = "num" /\ x.n * y.d < y.n * x.d

\* Python's min(list): the first item, replaced by each later item that
\* compares less than it
RECURSIVE py_min_from(_, _)
py_min_from(m, sq) ==
    IF sq = <<>> THEN m
    ELSE py_min_from(IF PyLess(Head(sq), m) THEN Head(sq) ELSE m, Tail(sq))

py_min(sq) == py_min_from(Head(sq), Tail(sq))

\* lines 50-69; min() of an empty list raises ValueError
get_sparsity_threshold(imgs, per) ==
    LET hasEmpty == \E k \in 1..Len(imgs) : \E i \in 1..Len(imgs[k]) :
                        nonzero_dat(imgs[k][i]) = <<>>
        g_thr(k) == [i \in 1..Len(imgs[k]) |-> component_thr(imgs[k][i], per)]
    IN  IF imgs = <<>> \/ (\E k \in 1..Len(imgs) : imgs[k] = <<>>) THEN Raised
        ELSE IF hasEmpty /\ scipy_empty = "raise" THEN Raised
        ELSE Returned(py_min([k \in 1..Len(imgs) |-> py_min(g_thr(k))]))

ConstComp(v) == [L |-> [i \in 1..NVox |-> v], R |-> [i \in 1..NVox |-> v]]

\* components added to the one that is enumerated: without activation, of
\* the least and of the greatest magnitude
Probe == {ZeroComp, ConstComp(1), ConstComp(MaxVal)}

ThrInputs ==
    {<<(<<c>>)>> : c \in Component}
      \cup {<<(<<c, q>>)>> : c \in Component, q \in Probe}
      \cup {<<(<<q, c>>)>> : c \in Component, q \in Probe}
      \cup {<<(<<c>>), (<<q>>)>> : c \in Component, q \in Probe}
      \cup {<<(<<q>>), (<<c>>)>> : c \in Component, q \in Probe}

ThrPercentiles == {500, 950, 999}

\* ---- Spec: one run of loop_main_and_plot
Init ==
    /\ disk \in [Comps -> UNION {DirLeft(c) : c \in Comps}]
    /\ \A c \in Comps : disk[c] \in DirLeft(c)
    /\ n_components = 0
    /\ PipeIdle
    /\ StatIdle
    /\ ThrIdle
    /\ MatchIdle

\* loop_main_and_plot up to line 598: the caller's arguments and the data
StartRun ==
    /\ pc = "idle"
    /\ \E cs \in CompSeqs, f \in BOOLEAN, s \in Seeds :
         /\ components' = cs
         /\ force' = f
         /\ seed' = s
    /\ pc' = "loop"
    /\ pos' = 0
    /\ masters' = [csv \in summary_csvs |-> EmptyTable]
    /\ UNCHANGED <<disk, master_csv, asserted, n_components, last, generated>>
    /\ UNCHANGED statVars
    /\ UNCHANGED thrVars
    /\ UNCHANGED matchVars

\* one iteration of the loop at lines 599-608; an exception ends the run
SummaryStep ==
    /\ pc = "loop"
    /\ pos < Len(components)
    /\ \E failAt \in FailSet :
         LET c   == components[pos + 1]
             res == load_or_generate_summary(disk[c], c, force, seed, failAt)
         IN  /\ last' = CallRecord(c, force, seed, failAt, disk[c], None, res)
             /\ disk' = [disk EXCEPT ![c] = res.disk]
             /\ IF res.failed
                  THEN /\ pc' = "done"
                       /\ UNCHANGED <<pos, masters>>
                  ELSE /\ pc' = "loop"
                       /\ pos' = pos + 1
                       /\ masters' = [csv \in summary_csvs |->
                                        df_append(masters[csv], res.ret[csv])]
    /\ UNCHANGED <<master_csv, components, force, seed, asserted, n_components,
                   generated>>
    /\ UNCHANGED statVars
    /\ UNCHANGED thrVars
    /\ UNCHANGED matchVars

\* lines 610-627: reset_index, save the master csvs, add the rescaled columns
\* and take the per-count slices with their asserts
FinishRun ==
    /\ pc = "loop"
    /\ pos = Len(components)
    /\ LET reset == [csv \in summary_csvs |-> AddCols(masters[csv], {"index"})]
           wb    == AddCols(reset["wb"],
                            {"rescaled_vc_" \o SPARSITY_SIGNS[i] :
                                i \in 1..Len(SPARSITY_SIGNS)})
       IN  /\ master_csv' = [csv \in summary_csvs |-> to_csv(reset[csv])]
           /\ masters' = [reset EXCEPT !["wb"] = wb]
           /\ asserted' = IF SlicesOK(wb, components) THEN "ok" ELSE "failed"
    /\ pc' = "done"
    /\ UNCHANGED <<disk, components, force, seed, pos, n_components, last,
                   generated>>
    /\ UNCHANGED statVars
    /\ UNCHANGED thrVars
    /\ UNCHANGED matchVars

Next == StartRun \/ SummaryStep \/ FinishRun

Spec == Init /\ [][Next]_vars

\* ---- SpecSummary: calls of load_or_generate_summary on one directory
InitSummary ==
    /\ disk = [c \in Comps |-> DirEmpty]
    /\ n_components \in Comps
    /\ PipeIdle
    /\ StatIdle
    /\ ThrIdle
    /\ MatchIdle

CallSummary ==
    /\ \E frc \in BOOLEAN, s \in Seeds, failAt \in FailSet :
         LET c   == n_components
             res == load_or_generate_summary(disk[c], c, frc, s, failAt)
         IN  /\ last' = CallRecord(c, frc, s, failAt, disk[c], generated, res)
             /\ disk' = [disk EXCEPT ![c] = res.disk]
             /\ generated' = IF res.branch = "load" THEN generated
                             ELSE IF res.failed THEN None ELSE res.ret
    /\ UNCHANGED <<master_csv, pc, components, force, seed, pos, masters,
                   asserted, n_components>>
    /\ UNCHANGED statVars
    /\ UNCHANGED thrVars
    /\ UNCHANGED matchVars

NextSummary == CallSummary

SpecSummary == InitSummary /\ [][NextSummary]_vars

\* ---- SpecStats: the statistic engines on bounded images
InitStats ==
    /\ disk = [c \in Comps |-> DirEmpty]
    /\ n_components = 0
    /\ PipeIdle
    /\ filter \in {"default", "error"}
    /\ \E comp \in Component, rest \in {<<>>, <<ZeroComp>>} : img = <<comp>> \o rest
    /\ percentile \in Percentiles
    /\ acni = None
    /\ hpai = None
    /\ ThrIdle
    /\ MatchIdle

CalcAcni ==
    /\ \E hemi \in hemis :
         acni' = [hemi |-> hemi, out |-> calculate_acni(img, hemi, percentile)]
    /\ hpai' = None
    /\ UNCHANGED <<filter, img, percentile>>
    /\ UNCHANGED pipeVars
    /\ UNCHANGED thrVars
    /\ UNCHANGED matchVars

CalcHpai ==
    /\ hpai' = [out |-> calculate_hpai(img, percentile)]
    /\ acni' = None
    /\ UNCHANGED <<filter, img, percentile>>
    /\ UNCHANGED pipeVars
    /\ UNCHANGED thrVars
    /\ UNCHANGED matchVars

NextStats == CalcAcni \/ CalcHpai

SpecStats == InitStats /\ [][NextStats]_vars

\* ---- SpecThr: get_sparsity_threshold on bounded lists of images
InitThr ==
    /\ disk = [c \in Comps |-> DirEmpty]
    /\ n_components = 0
    /\ PipeIdle
    /\ filter = "default"
    /\ img = <<>>
    /\ acni = None
    /\ hpai = None
    /\ percentile \in ThrPercentiles
    /\ images \in ThrInputs
    /\ scipy_empty \in {"nan", "raise"}
    /\ global_thr = None
    /\ MatchIdle

CalcThreshold ==
    /\ global_thr' = get_sparsity_threshold(images, percentile)
    /\ UNCHANGED <<images, scipy_empty>>
    /\ UNCHANGED statVars
    /\ UNCHANGED pipeVars
    /\ UNCHANGED matchVars

NextThr == CalcThreshold

SpecThr == InitThr /\ [][NextThr]_vars

\* ---- SpecMatch: the comparisons loop of load_or_generate_summary
InitMatch ==
    /\ disk = [c \in Comps |-> DirEmpty]
    /\ n_components \in Comps
    /\ PipeIdle
    /\ StatIdle
    /\ ThrIdle
    /\ sign_dtype \in {"int", "float"}
    /\ match = None
    /\ wb_match = None

\* one pass of the loop at lines 254-265
SummarizeMatch ==
    /\ \E j \in 1..Len(comparisons) : \E res \in get_match_idx_pair(n_components) :
          /\ match' = res
          /\ wb_match' = match_columns(comparisons[j], res, sign_dtype, n_components)
    /\ UNCHANGED sign_dtype
    /\ UNCHANGED pipeVars
    /\ UNCHANGED statVars
    /\ UNCHANGED thrVars

NextMatch == SummarizeMatch

SpecMatch == InitMatch /\ [][NextMatch]_vars

\* ====================================================================
\* Properties
\* ====================================================================
AllPresent(d) == \A csv \in summary_csvs : d[csv] # Absent
AllAbsent(d)  == \A csv \in summary_csvs : d[csv] = Absent
Partial(d)    == ~AllPresent(d) /\ ~AllAbsent(d)
Called        == last.res.branch # "none"
Returns       == Called /\ ~last.res.failed

\* the file holds exactly the rows and the named columns of the table
FileHolds(f, df) == f # Absent /\ f.rows = df.rows /\ f.cols \ {""} = df.cols

\* the directory with only the files of S left
Only(d, S) == [csv \in summary_csvs |-> IF csv \in S THEN d[csv] ELSE Absent]

\* C1: a call with force=False on a directory holding all three summary
\* files takes the load branch: the collaborator is not invoked, no file is
\* written, the directory is what it was, and the tables returned hold the
\* rows and the columns of the files.
C1_CacheHitLoads ==
    (Called /\ ~last.force /\ AllPresent(last.pre)) =>
        /\ last.res.branch = "load"
        /\ ~last.res.invoked
        /\ ~last.res.failed
        /\ last.res.writes = {}
        /\ disk[last.c] = last.pre
        /\ \A csv \in summary_csvs :
             /\ last.res.ret[csv].rows = last.pre[csv].rows
             /\ last.pre[csv].cols \ {""} \subseteq last.res.ret[csv].cols

C1_Witness ==
    /\ Called /\ ~last.force /\ AllPresent(last.pre)
    /\ last.res.branch = "load"
    /\ disk[last.c] = last.pre

\* C2: a call that fails leaves the three files of the directory as they were
\* before the call.
C2_FailureLeavesFilesUntouched ==
    (Called /\ last.res.failed) => disk[last.c] = last.pre

\* C3: with some but not all of the three files present the call takes the
\* generate branch whatever the subset: it reads no file, invokes the
\* collaborator and, when it returns, has written all three files with the
\* tables it returns.
C3_PartialIsMiss ==
    /\ (Called /\ Partial(last.pre)) =>
          /\ last.res.branch = "generate"
          /\ last.res.reads = {}
          /\ last.res.invoked
          /\ ~last.res.failed =>
                /\ last.res.writes = summary_csvs
                /\ \A csv \in summary_csvs :
                     FileHolds(disk[last.c][csv], last.res.ret[csv])
    /\ \A S \in SUBSET summary_csvs, frc \in BOOLEAN :
          LET d   == Only(disk[n_components], S)
              res == load_or_generate_summary(d, n_components, frc, 1, NoFail)
          IN  Partial(d) =>
                /\ res.branch = "generate"
                /\ res.reads = {}
                /\ \A csv \in summary_csvs : FileHolds(res.disk[csv], res.ret[csv])

C3_Witness ==
    /\ Returns /\ ~last.force /\ Partial(last.pre)
    /\ last.res.branch = "generate"
    /\ AllPresent(disk[last.c])

\* C4: the tables a non-forced call reloads equal the tables returned by the
\* call that computed and persisted them.
C4_RoundTrip ==
    (Called /\ last.res.branch = "load" /\ last.preGen # None) =>
        last.res.ret = last.preGen

\* C5: a forced call always generates; a call on an empty directory
\* generates; a generation that returns leaves in each of the three files
\* exactly the table it returns, every row being of the new data; a load
\* leaves the files alone and returns their rows.
C5_Lifecycle ==
    Called =>
        /\ last.force => (last.res.branch = "generate" /\ last.res.invoked)
        /\ AllAbsent(last.pre) => last.res.branch = "generate"
        /\ (last.res.branch = "generate" /\ ~last.res.failed) =>
              \A csv \in summary_csvs :
                 /\ FileHolds(disk[last.c][csv], last.res.ret[csv])
                 /\ \A i \in 1..Len(disk[last.c][csv].rows) :
                       disk[last.c][csv].rows[i].seed = last.seed
        /\ (last.res.branch = "load" /\ ~last.res.failed) =>
              /\ disk[last.c] = last.pre
              /\ \A csv \in summary_csvs :
                    last.res.ret[csv].rows = last.pre[csv].rows

C5_Witness ==
    /\ Returns /\ last.force /\ AllPresent(last.pre)
    /\ \A csv \in summary_csvs :
          /\ last.pre[csv].rows[1].seed # last.seed
          /\ disk[last.c][csv].rows[1].seed = last.seed

\* C6: every table returned for count c has c rows, each with n_comp = c;
\* while the run accumulates, each master table has as many rows as the sum
\* of the counts summarised so far, and once the run is through the sum of
\* all counts, with every assert on the slices holding.
C6_RowCounts ==
    /\ Returns =>
          \A csv \in summary_csvs :
             /\ Len(last.res.ret[csv].rows) = last.c
             /\ \A i \in 1..Len(last.res.ret[csv].rows) :
                   last.res.ret[csv].rows[i].n_comp = last.c
    /\ pc = "loop" =>
          \A csv \in summary_csvs :
             Len(masters[csv].rows) = SumSeq(SubSeq(components, 1, pos))
    /\ (pc = "done" /\ asserted # "none") =>
          /\ asserted = "ok"
          /\ \A csv \in summary_csvs :
                Len(masters[csv].rows) = SumSeq(components)

C6_Witness ==
    /\ pc = "done" /\ asserted = "ok"
    /\ Len(components) >= 2
    /\ components[1] # components[2]
    /\ last.res.branch = "load"
    /\ Len(masters["wb"].rows) = SumSeq(components)

\* ---- the statistic engines
Zero     == Num(0, 1)
One      == Num(1, 1)
MinusOne == Num(0 - 1, 1)
Half     == Num(1, 2)

InRange(x, lo, hi) == x.kind = "num" /\ lo * x.d <= x.n /\ x.n <= hi * x.d

HpaiReturned == hpai # None /\ ~hpai.out.raised
AcniReturned == acni # None /\ ~acni.out.raised
Idx == 1..Len(img)

\* C7 as claimed: every value calculate_hpai returns is in [-1, 1].
C7_AlwaysInRange ==
    HpaiReturned =>
        \A sign \in Signs, i \in Idx : InRange(hpai.out.val[sign][i], 0 - 1, 1)

\* C7: for every component and sign with right_count + left_count > 0 the
\* value calculate_hpai returns is in [-1, 1]; with both counts zero it is
\* not-a-number.
C7_InRangeWhenCounted ==
    HpaiReturned =>
        \A sign \in Signs, i \in Idx :
            LET r == voxel_r(img[i], sign, percentile)
                l == voxel_l(img[i], sign, percentile)
            IN  /\ r + l > 0 => InRange(hpai.out.val[sign][i], 0 - 1, 1)
                /\ r + l = 0 => hpai.out.val[sign][i] = NaN

C7_Witness ==
    /\ HpaiReturned
    /\ \E sign \in Signs, i \in Idx :
          /\ voxel_r(img[i], sign, percentile) > 0
          /\ voxel_l(img[i], sign, percentile) > 0
          /\ InRange(hpai.out.val[sign][i], 0 - 1, 1)
    /\ \E sign \in Signs, i \in Idx :
          /\ voxel_r(img[i], sign, percentile) = 0
          /\ voxel_l(img[i], sign, percentile) > 0

\* C8 as claimed: 0 for equal counts, +1 for left = 0 < right, -1 for
\* right = 0 < left.
C8_ValuesAsClaimed ==
    HpaiReturned =>
        \A sign \in Signs, i \in Idx :
            LET r == voxel_r(img[i], sign, percentile)
                l == voxel_l(img[i], sign, percentile)
            IN  /\ r = l => hpai.out.val[sign][i] = Zero
                /\ (l = 0 /\ r > 0) => hpai.out.val[sign][i] = One
                /\ (r = 0 /\ l > 0) => hpai.out.val[sign][i] = MinusOne

\* C8: calculate_hpai returns 0 when the right and left counts are equal and
\* not zero, +1 when the left count is 0 and the right count > 0, -1 when
\* the right count is 0 and the left count > 0.
C8_Values ==
    HpaiReturned =>
        \A sign \in Signs, i \in Idx :
            LET r == voxel_r(img[i], sign, percentile)
                l == voxel_l(img[i], sign, percentile)
            IN  /\ (r = l /\ r > 0) => hpai.out.val[sign][i] = Zero
                /\ (l = 0 /\ r > 0) => hpai.out.val[sign][i] = One
                /\ (r = 0 /\ l > 0) => hpai.out.val[sign][i] = MinusOne

C8_Witness ==
    /\ HpaiReturned
    /\ \E i \in Idx :
          /\ voxel_r(img[i], "abs", percentile) = voxel_l(img[i], "abs", percentile)
          /\ voxel_r(img[i], "abs", percentile) > 0
          /\ hpai.out.val["abs"][i] = Zero
    /\ \E i \in Idx :
          /\ voxel_l(img[i], "pos", percentile) = 0
          /\ voxel_r(img[i], "pos", percentile) > 0
          /\ hpai.out.val["pos"][i] = One

\* the value of component i when it is the only component of the image
AcniAlone(i) == calculate_acni(<<img[i]>>, acni.hemi, percentile)
HpaiAlone(i) == calculate_hpai(<<img[i]>>, percentile)

AcniDen(i) == abs_voxels(img[i], acni.hemi, percentile)
HpaiDen(i, sign) ==
    voxel_r(img[i], sign, percentile) + voxel_l(img[i], sign, percentile)

\* what C9 says of a returned result
AcniMarked ==
    /\ ~acni.out.raised
    /\ \A i \in Idx :
          /\ AcniDen(i) = 0 => (acni.out.val[i] = NaN /\ acni.out.val[i] # Zero)
          /\ AcniDen(i) # 0 => acni.out.val[i] = AcniAlone(i).val[1]

HpaiMarked ==
    /\ ~hpai.out.raised
    /\ \A i \in Idx, sign \in Signs :
          /\ HpaiDen(i, sign) = 0 =>
                (hpai.out.val[sign][i] = NaN /\ hpai.out.val[sign][i] # Zero)
          /\ HpaiDen(i, sign) # 0 =>
                hpai.out.val[sign][i] = HpaiAlone(i).val[sign][1]

\* C9 as claimed: a zero denominator gives not-a-number for that component,
\* never zero, and leaves the other components' results as they are.
C9_MarkerAlways ==
    /\ (acni # None /\ \E i \in Idx : AcniDen(i) = 0) => AcniMarked
    /\ (hpai # None /\ \E i \in Idx, sign \in Signs : HpaiDen(i, sign) = 0) => HpaiMarked

\* C9: with the default warnings filter a zero denominator gives
\* not-a-number for that component, never zero, and the other components'
\* results are what they are without it; with RuntimeWarning turned into an
\* error (line 645) the call raises and returns no result at all.
C9_MarkerOrRaise ==
    /\ (acni # None /\ \E i \in Idx : AcniDen(i) = 0) =>
          IF filter = "error" THEN acni.out = Raised ELSE AcniMarked
    /\ (hpai # None /\ \E i \in Idx, sign \in Signs : HpaiDen(i, sign) = 0) =>
          IF filter = "error" THEN hpai.out = Raised ELSE HpaiMarked

C9_Witness ==
    /\ filter = "default"
    /\ acni # None
    /\ Len(img) >= 2
    /\ AcniDen(2) = 0 /\ acni.out.val[2] = NaN
    /\ AcniDen(1) > 0 /\ acni.out.val[1] = Half

\* C10: for every component with abs_voxels > 0 the value calculate_acni
\* returns is in [0, 1], neg_voxels being at most abs_voxels, and it is 0.5
\* when neg_voxels is half of abs_voxels.
C10_AcniRange ==
    AcniReturned =>
        \A i \in Idx :
            LET neg == neg_voxels(img[i], acni.hemi, percentile)
                abz == abs_voxels(img[i], acni.hemi, percentile)
            IN  abz > 0 =>
                  /\ neg <= abz
                  /\ InRange(acni.out.val[i], 0, 1)
                  /\ 2 * neg = abz => acni.out.val[i] = Half

C10_Witness ==
    /\ AcniReturned
    /\ \E i \in Idx :
          /\ abs_voxels(img[i], acni.hemi, percentile) = 2
          /\ neg_voxels(img[i], acni.hemi, percentile) = 1
          /\ acni.out.val[i] = Half

\* ---- the global sparsity threshold
AllComps == UNION {{<<k, i>> : i \in 1..Len(images[k])} : k \in 1..Len(images)}
HasEmptyComponent == \E ki \in AllComps : nonzero_dat(images[ki[1]][ki[2]]) = <<>>
ThrReturned == global_thr # None /\ ~global_thr.raised
Leq(x, y) == x.kind = "num" /\ y.kind = "num" /\ x.n * y.d <= y.n * x.d

\* the greatest absolute voxel value of all the images
MaxAbsValue ==
    CHOOSE v \in 0..MaxVal :
        /\ \A ki \in AllComps : \A j \in 1..(NVox + NVox) :
              Abs(get_data(images[ki[1]][ki[2]])[j]) <= v
        /\ \E ki \in AllComps : \E j \in 1..(NVox + NVox) :
              Abs(get_data(images[ki[1]][ki[2]])[j]) = v

\* what C12 says of a returned threshold
ThrIsMinimum ==
    /\ \A ki \in AllComps : Leq(global_thr.val, component_thr(images[ki[1]][ki[2]], percentile))
    /\ \E ki \in AllComps : global_thr.val = component_thr(images[ki[1]][ki[2]], percentile)
    /\ Leq(global_thr.val, Num(MaxAbsValue, 1))
    /\ \A q \in ThrPercentiles :
          (q <= percentile /\ ~get_sparsity_threshold(images, q).raised) =>
              Leq(get_sparsity_threshold(images, q).val, global_thr.val)

\* C11: get_sparsity_threshold raises when a component of an image has no
\* nonzero voxel; it returns nothing then.
C11_EmptyComponentRaises ==
    (global_thr # None /\ HasEmptyComponent) => global_thr.raised

\* C12: the threshold returned is the minimum over the images of the minimum
\* over the components of the percentile of the absolute nonzero values, is
\* at most the greatest absolute voxel value, and does not grow when the
\* percentile decreases.
C12_MinOfPercentiles == ThrReturned => ThrIsMinimum

\* C12 on the inputs of which every component has a nonzero voxel
C12_OnNonEmpty == (ThrReturned /\ ~HasEmptyComponent) => ThrIsMinimum

\* ---- the match columns
Attached(x) == wb_match # None /\ ("n_unmatched" \o x) \in DOMAIN wb_match
Cmp == {comparisons[j] : j \in 1..Len(comparisons)}

\* the indices present in the unmatched structure
UnmatchedIndices ==
    IF match.unmatched.idx = None THEN {}
    ELSE {match.unmatched.idx.rows[2][t] : t \in 1..Len(match.unmatched.idx.rows[2])}

\* C13: for each of the three comparisons the n_unmatched column attached to
\* wb_summary holds, in every row, the number of indices of the unmatched
\* structure of get_match_idx_pair, which is 0 when the structure is empty or
\* absent.
C13_UnmatchedCount ==
    \A x \in Cmp : Attached(x) =>
        /\ DOMAIN wb_match["n_unmatched" \o x] = 1..n_components
        /\ \A t \in 1..n_components :
              wb_match["n_unmatched" \o x][t] = Cardinality(UnmatchedIndices)

\* a column was attached for two wb components of which one of the second
\* decomposition is unmatched
C13_Witness ==
    /\ Attached("RL-unforced")
    /\ match.unmatched.idx # None
    /\ Cardinality(UnmatchedIndices) = 1
    /\ n_components = 2

\* C14: the stored value matched_index * matched_sign determines both the
\* index (in 0..n_components-1) and the sign: no other (index, sign) pair
\* gives the value stored in a row.
C14_SignedIndexInjective ==
    \A x \in Cmp : Attached(x) =>
        \A t \in 1..n_components :
            \A j \in 0..(n_components - 1), sg \in {0 - 1, 1} :
                np_multiply(j, sg, sign_dtype) = wb_match["matched" \o x][t]
                    => /\ j = match.matched.idx.rows[2][t]
                       /\ sg = match.matched.sign.rows[2][t]

\* ---- the order of the master tables
StartIdx(i) == SumSeq(SubSeq(components, 1, i - 1))
Block(csv, i) == Slice(masters[csv].rows, StartIdx(i), StartIdx(i) + components[i])

\* C15: each master table is the row-wise concatenation, in the order of the
\* caller's sequence, of the summaries: its i-th block is the rows of the
\* summary for components[i], all with n_comp = components[i], whether the
\* summary was loaded or computed.
C15_MasterOrder ==
    \A csv \in summary_csvs :
        /\ Len(masters[csv].rows) = SumSeq(SubSeq(components, 1, pos))
        /\ \A i \in 1..pos :
              /\ Len(Block(csv, i)) = components[i]
              /\ \A j \in 1..components[i] :
                    /\ Block(csv, i)[j].n_comp = components[i]
                    /\ Block(csv, i)[j].comp = j - 1
        /\ (pc = "loop" /\ pos >= 1) => Block(csv, pos) = last.res.ret[csv].rows

\* the summaries of two different counts have been appended on a run
\* without force, the second of them computed
C15_Witness ==
    /\ pc = "loop" /\ pos = 2
    /\ components[1] > components[2]
    /\ last.res.branch = "generate"
    /\ ~force

\* ---- the persisted wb_summary
CompleteCols == SSSCols \cup UNION {MatchCols(x) : x \in Cmp}

\* C16: whenever all three files exist after calls that began on an empty
\* directory, the persisted wb_summary holds the SSS columns and the matched,
\* score and n_unmatched columns of all three comparisons, and a non-forced
\* call that loads returns a wb table with all of them.
C16_PersistedComplete ==
    AllPresent(disk[n_components]) =>
        /\ CompleteCols \subseteq disk[n_components]["wb"].cols
        /\ (Returns /\ last.res.branch = "load") =>
              CompleteCols \subseteq last.res.ret["wb"].cols

====
